---------------------------- MODULE Spec2Model ----------------------------
(***************************************************************************)
(* A model of the image core of kornia_rs: the Image type of              *)
(* crates/kornia-image/src/image.rs (construction, cast, channel          *)
(* extraction, cast_and_scale), the normalize module and the perspective  *)
(* warp of crates/kornia-imgproc, and the image messages of the           *)
(* copper_pipeline example.                                                *)
(*                                                                         *)
(* One caller owns a source image `src`, a destination image `dst` and    *)
(* the images `outs` returned by the last call; `call` records the last   *)
(* call: its name, its arguments, the status it returned and, for a call  *)
(* that returns a value that is no image, that value (`ret`).             *)
(*                                                                         *)
(* Numbers.  Every element is an exact rational [n, d] in lowest terms;   *)
(* d = 0 encodes the non-finite floats (n = 1: +inf, n = -1: -inf,        *)
(* n = 0: NaN).  f32 arithmetic is modelled exactly: rounding and signed  *)
(* zeros are not modelled.  u8 elements are the rationals k/1 with        *)
(* 0 <= k <= 255.                                                          *)
(*                                                                         *)
(* Sizes.  Widths, heights and buffer lengths are small, so the usize      *)
(* product width * height * CHANNELS never overflows and every allocation  *)
(* succeeds.  The error Image::new returns for a wrong data length is      *)
(* InvalidChannelShape, which spec.md calls ShapeMismatch.                 *)
(*                                                                         *)
(* A definition named X_Variant right before X is a faulty variant of X:   *)
(* the property that depends on X is violated with X replaced by it.       *)
(***************************************************************************)
EXTENDS Integers, Sequences, FiniteSets, TLC

VARIABLES src, dst, outs, call

vars == <<src, dst, outs, call>>

---------------------------------------------------------------------------
(* Bounds of the model *)

\* largest width and largest height an image is constructed with
MaxDim == 2

\* largest number of elements of a buffer handed to a constructor
MaxLen == 4

\* largest number of workers the data-parallel loops run on
MaxWorkers == 2

\* largest channel index channel() is called with
MaxChannel == 2

---------------------------------------------------------------------------
(* Exact arithmetic on the element values *)

AbsInt(a) == IF a < 0 THEN -a ELSE a

SgnInt(a) == IF a < 0 THEN -1 ELSE IF a > 0 THEN 1 ELSE 0

RECURSIVE GCD(_, _)
GCD(a, b) == IF b = 0 THEN a ELSE GCD(b, a % b)

\* the number n/d, d >= 0, in lowest terms; d = 0 gives +inf, -inf or NaN
R(n, d) ==
    IF d = 0 THEN [n |-> SgnInt(n), d |-> 0]
    ELSE LET g == GCD(AbsInt(n), d)
         IN  [n |-> SgnInt(n) * (AbsInt(n) \div g), d |-> d \div g]

Q(k) == [n |-> k, d |-> 1]

NaN == [n |-> 0, d |-> 0]

IsNaN(x) == x.d = 0 /\ x.n = 0

IsInf(x) == x.d = 0 /\ x.n # 0

IsFinite(x) == x.d > 0

RNeg(x) == [n |-> -x.n, d |-> x.d]

RAdd(x, y) ==
    IF IsNaN(x) \/ IsNaN(y) THEN NaN
    ELSE IF IsInf(x) /\ IsInf(y) THEN (IF x.n = y.n THEN x ELSE NaN)
    ELSE IF IsInf(x) THEN x
    ELSE IF IsInf(y) THEN y
    ELSE R(x.n * y.d + y.n * x.d, x.d * y.d)

RSub(x, y) == RAdd(x, RNeg(y))

RMul(x, y) ==
    IF IsNaN(x) \/ IsNaN(y) THEN NaN ELSE R(x.n * y.n, x.d * y.d)

RDiv(x, y) ==
    IF IsNaN(x) \/ IsNaN(y) THEN NaN
    ELSE IF y.n < 0 THEN R(-(x.n * y.d), -(x.d * y.n))
    ELSE R(x.n * y.d, x.d * y.n)

\* the float comparisons: every comparison with NaN is false
REq(x, y) == ~IsNaN(x) /\ ~IsNaN(y) /\ x = y

RLt(x, y) ==
    /\ ~IsNaN(x)
    /\ ~IsNaN(y)
    /\ x # y
    /\ IF IsInf(x) THEN x.n = -1
       ELSE IF IsInf(y) THEN y.n = 1
       ELSE x.n * y.d < y.n * x.d

\* the integer part of a finite number, rounding towards zero
Trunc(x) == SgnInt(x.n) * (AbsInt(x.n) \div x.d)

RECURSIVE RPow(_, _)
RPow(x, k) == IF k = 0 THEN Q(1) ELSE RMul(x, RPow(x, k - 1))

---------------------------------------------------------------------------
(* Images *)

\* the element types the model instantiates Image<T, CHANNELS> with
Dtypes == {"u8", "f32"}

\* the elements the caller fills its buffers with
U8Vals == {Q(0), Q(255)}

F32Vals == {Q(-1), R(3, 2)}

ValsOf(t) == IF t = "u8" THEN U8Vals ELSE F32Vals

Dims == 0 .. MaxDim

\* the channel counts (the const generic CHANNELS) the model instantiates
Channels == {1, 2}

\* the slot of an image that does not exist (yet)
NoImage == [dtype |-> "none", shape |-> <<0, 0, 0>>, data |-> <<>>]

Exists(img) == img.dtype # "none"

\* Tensor3::from_shape_vec: the tensor of a shape and a buffer of its size
FromShapeVec(t, shape, data) ==
    IF Len(data) = shape[1] * shape[2] * shape[3]
    THEN [dtype |-> t, shape |-> shape, data |-> data]
    ELSE NoImage

ImageSize(width, height) == [width |-> width, height |-> height]

\* Image::size, width, height, num_channels
Size(img) == ImageSize(img.shape[2], img.shape[1])

Width(img) == img.shape[2]

Height(img) == img.shape[1]

NumChannels(img) == img.shape[3]

\* the flat index (from 1) of the element [y, x, ch] (each from 0)
FlatIndex(img, y, x, ch) == (y * Width(img) + x) * NumChannels(img) + ch + 1

GetUnchecked(img, y, x, ch) == img.data[FlatIndex(img, y, x, ch)]

\* Image::new with the tensor's shape given as [width, height, CHANNELS]
NewExpr_SwappedShape(t, c, size, data) ==
    IF Len(data) # size.width * size.height * c
    THEN [status |-> "InvalidChannelShape", image |-> NoImage]
    ELSE [status |-> "Ok",
          image |-> FromShapeVec(t, <<size.width, size.height, c>>, data)]

\* Image::new that takes a buffer that is too long, and cuts it to fit
NewExpr_Truncating(t, c, size, data) ==
    IF Len(data) < size.width * size.height * c
    THEN [status |-> "InvalidChannelShape", image |-> NoImage]
    ELSE [status |-> "Ok",
          image |-> FromShapeVec(t, <<size.height, size.width, c>>,
                                 SubSeq(data, 1, size.width * size.height * c))]

\* Image::new that refuses an image without pixels
NewExpr_RejectsEmpty(t, c, size, data) ==
    IF Len(data) # size.width * size.height * c \/ Len(data) = 0
    THEN [status |-> "InvalidChannelShape", image |-> NoImage]
    ELSE [status |-> "Ok",
          image |-> FromShapeVec(t, <<size.height, size.width, c>>, data)]

\* the result of Image::new: the image, or the error it returns
NewExpr(t, c, size, data) ==
    IF Len(data) # size.width * size.height * c
    THEN [status |-> "InvalidChannelShape", image |-> NoImage]
    ELSE LET tensor == FromShapeVec(t, <<size.height, size.width, c>>, data)
         IN  IF Exists(tensor)
             THEN [status |-> "Ok", image |-> tensor]
             ELSE [status |-> "TensorError", image |-> NoImage]

\* impl From<[usize; 2]> for ImageSize
ImageSizeFrom(size) == ImageSize(size[1], size[2])

\* ImageRGBU8 = Image<u8, 3> and ImageGrayU8 = Image<u8, 1>
RgbChannels == 3

GrayChannels == 1

\* impl Default for ImageRGBU8Msg and ImageGrayU8Msg:
\* Image::new([0, 0].into(), vec![]).unwrap()
DefaultMsgExpr(c) == NewExpr("u8", c, ImageSizeFrom(<<0, 0>>), <<>>)

\* vec![val; n]
Repeat(val, n) == [i \in 1 .. n |-> val]

\* from_size_val that allocates one element per pixel
FromSizeValExpr_NoChannels(t, c, size, val) ==
    NewExpr(t, c, size, Repeat(val, size.width * size.height))

\* Image::from_size_val
FromSizeValExpr(t, c, size, val) ==
    NewExpr(t, c, size, Repeat(val, size.width * size.height * c))

\* the buffers of at most MaxLen elements of type t
RECURSIVE SeqsUpTo(_, _)
SeqsUpTo(S, k) ==
    IF k = 0 THEN {<<>>}
    ELSE LET shorter == SeqsUpTo(S, k - 1)
         IN  shorter \cup {Append(s, v) : s \in {q \in shorter : Len(q) = k - 1}, v \in S}

Buffers(t) == SeqsUpTo(ValsOf(t), MaxLen)

\* the conversions T: Into<U> that cast() is instantiated with
IntoPairs == {<<"u8", "u8">>, <<"u8", "f32">>, <<"f32", "f32">>}

\* a conversion of u8 into a float that also scales it into [0, 1]
IntoVal_Scaled(t, u, x) == IF t = "u8" /\ u = "f32" THEN RDiv(x, Q(255)) ELSE x

\* x.into(): a lossless conversion, so the number converted is the same
\* number, now an element of the target type
IntoVal(t, u, x) == x

\* Image::cast: the image of the converted elements, built by Image::new
\* from the source's size (the unwrap panics on an error)
CastExpr(img, u) ==
    NewExpr(u, NumChannels(img), Size(img),
            [i \in 1 .. Len(img.data) |-> IntoVal(img.dtype, u, img.data[i])])

\* the buffer of a channel collected x outer, y inner
ChannelData_ColumnMajor(img, channel) ==
    [k \in 1 .. Height(img) * Width(img) |->
        GetUnchecked(img, (k - 1) % Height(img), (k - 1) \div Height(img), channel)]

\* the buffer that Image::channel collects: y outer, x inner
ChannelData(img, channel) ==
    [k \in 1 .. Height(img) * Width(img) |->
        GetUnchecked(img, (k - 1) \div Width(img), (k - 1) % Width(img), channel)]

\* Image::rows and Image::cols
Rows(img) == Height(img)

Cols(img) == Width(img)

\* Tensor::get(index): the element at [i0, i1, i2] as <<v>>, or <<>> (None)
\* for an index outside the shape
TensorGet(img, index) ==
    IF index[1] < img.shape[1] /\ index[2] < img.shape[2] /\ index[3] < img.shape[3]
    THEN <<GetUnchecked(img, index[1], index[2], index[3])>>
    ELSE <<>>

\* get_pixel with the test of the channel before the test of the pixel
GetPixelExpr_ChannelFirst(img, x, y, ch) ==
    IF ch >= NumChannels(img)
    THEN [status |-> "ChannelIndexOutOfBounds", val |-> <<>>]
    ELSE IF x >= Width(img) \/ y >= Height(img)
    THEN [status |-> "PixelIndexOutOfBounds", val |-> <<>>]
    ELSE LET val == TensorGet(img, <<y, x, ch>>)
         IN  IF val = <<>> THEN [status |-> "ImageDataNotContiguous", val |-> <<>>]
             ELSE [status |-> "Ok", val |-> val]

\* Image::get_pixel(x, y, ch)
GetPixelExpr(img, x, y, ch) ==
    IF x >= Width(img) \/ y >= Height(img)
    THEN [status |-> "PixelIndexOutOfBounds", val |-> <<>>]
    ELSE IF ch >= NumChannels(img)
    THEN [status |-> "ChannelIndexOutOfBounds", val |-> <<>>]
    ELSE LET val == TensorGet(img, <<y, x, ch>>)
         IN  IF val = <<>> THEN [status |-> "ImageDataNotContiguous", val |-> <<>>]
             ELSE [status |-> "Ok", val |-> val]

\* impl Encode for ImageRGBU8Msg and ImageGrayU8Msg: what the encoder is
\* given, in order
EncodeExpr(img) == <<Rows(img), Cols(img), img.data>>

\* impl Decode for the message of c channels: rows, cols and data are read
\* in order, and the image is Image::new([rows, cols].into(), data)
DecodeExpr(c, wire) ==
    LET rows == wire[1]
        cols == wire[2]
        data == wire[3]
    IN  NewExpr("u8", c, ImageSizeFrom(<<rows, cols>>), data)

\* Image::channel
ChannelExpr(img, channel) ==
    IF channel >= NumChannels(img)
    THEN [status |-> "ChannelIndexOutOfBounds", image |-> NoImage]
    ELSE NewExpr(img.dtype, 1, Size(img), ChannelData(img, channel))

\* Image::split_channels: channel(i)? for i in 0..CHANNELS, pushed in order;
\* the first error ends the loop and is returned
RECURSIVE SplitLoop(_, _, _)
SplitLoop(img, i, channels) ==
    IF i >= NumChannels(img) THEN [status |-> "Ok", images |-> channels]
    ELSE LET r == ChannelExpr(img, i)
         IN  IF r.status # "Ok" THEN [status |-> r.status, images |-> <<>>]
             ELSE SplitLoop(img, i + 1, Append(channels, r.image))

\* split_channels with the loop started at the channel 1
SplitChannelsExpr_FromOne(img) == SplitLoop(img, 1, <<>>)

SplitChannelsExpr(img) == SplitLoop(img, 0, <<>>)

\* Tensor::map: the tensor of the same shape that holds the mapped elements
MapTensor(img, data) == [dtype |-> img.dtype, shape |-> img.shape, data |-> data]

\* f32::powi: x^n, and 1/x^(-n) for a negative n
PowiVal(x, n) == IF n >= 0 THEN RPow(x, n) ELSE RDiv(Q(1), RPow(x, -n))

AbsVal(x) == [n |-> AbsInt(x.n), d |-> x.d]

\* Image::powi and Image::abs
PowiExpr(img, n) ==
    MapTensor(img, [i \in 1 .. Len(img.data) |-> PowiVal(img.data[i], n)])

AbsExpr(img) ==
    MapTensor(img, [i \in 1 .. Len(img.data) |-> AbsVal(img.data[i])])

\* the exponents the caller raises to
Exponents == {2, -1}

---------------------------------------------------------------------------
(* cast_and_scale *)

\* a conversion that saturates (`as u8`) where NumCast gives None
NumCast_Saturating(t, u, x) ==
    IF u = "f32" \/ t = u THEN <<x>>
    ELSE IF IsNaN(x) \/ RLt(x, Q(0)) THEN <<Q(0)>>
    ELSE IF RLt(Q(255), x) THEN <<Q(255)>>
    ELSE <<Q(Trunc(x))>>

\* U::from(inp), num_traits::NumCast: <<v>> for Some(v), <<>> for None.
\* Into a float, and within one type, every value converts; a float converts
\* to u8 when -1 < x < 256, to its integer part
NumCast(t, u, x) ==
    IF u = "f32" \/ t = u THEN <<x>>
    ELSE IF IsFinite(x) /\ RLt(Q(-1), x) /\ RLt(x, Q(256)) THEN <<Q(Trunc(x))>>
    ELSE <<>>

\* x * scale in the destination's type U; the u8 product keeps the width of
\* u8 (a build with overflow checks aborts instead of wrapping: an abort is
\* no return value of the call)
MulVal(u, x, scale) ==
    IF u = "u8" THEN Q((x.n * scale.n) % 256) ELSE RMul(x, scale)

Min(a, b) == IF a < b THEN a ELSE b

\* the loop of cast_and_scale with the scale forgotten
RECURSIVE CastLoop_NoScale(_, _, _, _, _)
CastLoop_NoScale(s, u, scale, i, out) ==
    IF i > Min(Len(out), Len(s.data)) THEN [status |-> "Ok", data |-> out]
    ELSE LET x == NumCast(s.dtype, u, s.data[i])
         IN  IF x = <<>> THEN [status |-> "CastError", data |-> out]
             ELSE CastLoop_NoScale(s, u, scale, i + 1, [out EXCEPT ![i] = x[1]])

\* dst.iter_mut().zip(src.iter()).try_for_each(..): element by element, in
\* buffer order, ending at the first conversion that fails
RECURSIVE CastLoop(_, _, _, _, _)
CastLoop(s, u, scale, i, out) ==
    IF i > Min(Len(out), Len(s.data)) THEN [status |-> "Ok", data |-> out]
    ELSE LET x == NumCast(s.dtype, u, s.data[i])
         IN  IF x = <<>> THEN [status |-> "CastError", data |-> out]
             ELSE CastLoop(s, u, scale, i + 1,
                           [out EXCEPT ![i] = MulVal(u, x[1], scale)])

\* cast_and_scale that compares the widths alone
CastAndScaleExpr_WidthOnly(s, d, scale) ==
    IF Width(s) # Width(d) THEN [status |-> "InvalidImageSize", data |-> d.data]
    ELSE CastLoop(s, d.dtype, scale, 1, d.data)

\* cast_and_scale that leaves the destination as it was when it fails
CastAndScaleExpr_AllOrNothing(s, d, scale) ==
    IF Size(s) # Size(d) THEN [status |-> "InvalidImageSize", data |-> d.data]
    ELSE LET r == CastLoop(s, d.dtype, scale, 1, d.data)
         IN  IF r.status = "Ok" THEN r ELSE [status |-> r.status, data |-> d.data]

\* cast_and_scale(&src, &mut dst, scale): the status returned and the
\* destination's buffer after the call
CastAndScaleExpr(s, d, scale) ==
    IF Size(s) # Size(d) THEN [status |-> "InvalidImageSize", data |-> d.data]
    ELSE CastLoop(s, d.dtype, scale, 1, d.data)

\* the scales the caller passes, of the destination's type
ScalesOf(u) == IF u = "u8" THEN {Q(1), Q(2)} ELSE {R(1, 255), Q(2)}

---------------------------------------------------------------------------
(* normalize *)

\* Zip::from(dst_data.rows_mut()).and(src_data.rows()).par_for_each(..) and
\* the copy back: dst_data starts as a copy of the destination, and the
\* closure writes the CHANNELS elements of each pixel (a row of the last
\* axis) that the zip pairs with a pixel of the source; InZip: the element k
\* of the buffer is of such a pixel, ChannelOf: its channel
InZip(s, d, k) == (k - 1) \div NumChannels(d) < Height(s) * Width(s)

ChannelOf(d, k) == (k - 1) % NumChannels(d)

\* normalize_mean_std that takes the mean and the std of the first channel
\* for every channel
NormalizeMeanStdExpr_FirstChannel(s, d, mean, std) ==
    IF Size(s) # Size(d) THEN [status |-> "InvalidImageSize", data |-> d.data]
    ELSE [status |-> "Ok",
          data |-> [k \in 1 .. Len(d.data) |->
              IF InZip(s, d, k)
              THEN RDiv(RSub(s.data[k], mean[1]), std[1])
              ELSE d.data[k]]]

\* normalize_mean_std(&src, &mut dst, &mean, &std); mean and std index from 1
NormalizeMeanStdExpr(s, d, mean, std) ==
    IF Size(s) # Size(d) THEN [status |-> "InvalidImageSize", data |-> d.data]
    ELSE [status |-> "Ok",
          data |-> [k \in 1 .. Len(d.data) |->
              IF InZip(s, d, k)
              THEN RDiv(RSub(s.data[k], mean[ChannelOf(d, k) + 1]),
                        std[ChannelOf(d, k) + 1])
              ELSE d.data[k]]]

\* the loop of find_min_max over the buffer, from its first element
RECURSIVE MinMaxLoop(_, _, _, _)
MinMaxLoop(data, i, min, max) ==
    IF i > Len(data) THEN <<min, max>>
    ELSE LET x == data[i]
             min1 == IF RLt(x, min) THEN x ELSE min
             max1 == IF RLt(max, x) THEN x ELSE max
         IN  MinMaxLoop(data, i + 1, min1, max1)

\* find_min_max with the running minimum and maximum started at zero
FindMinMaxExpr_FromZero(img) ==
    IF Len(img.data) = 0
    THEN [status |-> "ImageDataNotInitialized", min |-> NaN, max |-> NaN]
    ELSE LET mm == MinMaxLoop(img.data, 1, Q(0), Q(0))
         IN  [status |-> "Ok", min |-> mm[1], max |-> mm[2]]

\* find_min_max(&image)
FindMinMaxExpr(img) ==
    IF Len(img.data) = 0
    THEN [status |-> "ImageDataNotInitialized", min |-> NaN, max |-> NaN]
    ELSE LET mm == MinMaxLoop(img.data, 1, img.data[1], img.data[1])
         IN  [status |-> "Ok", min |-> mm[1], max |-> mm[2]]

\* the minimum and maximum of the channel of the element k alone
ChannelMinMax(s, d, k) ==
    FindMinMaxExpr([dtype |-> s.dtype, shape |-> <<Height(s), Width(s), 1>>,
                    data |-> ChannelData(s, ChannelOf(d, k))])

\* normalize_min_max that scales every channel by its own minimum and maximum
NormalizeMinMaxExpr_PerChannel(s, d, min, max) ==
    IF Size(s) # Size(d) THEN [status |-> "InvalidImageSize", data |-> d.data]
    ELSE LET mm == FindMinMaxExpr(s)
         IN  IF mm.status # "Ok" THEN [status |-> mm.status, data |-> d.data]
             ELSE [status |-> "Ok",
                   data |-> [k \in 1 .. Len(d.data) |->
                       IF InZip(s, d, k)
                       THEN RAdd(RDiv(RMul(RSub(s.data[k], ChannelMinMax(s, d, k).min),
                                           RSub(max, min)),
                                      RSub(ChannelMinMax(s, d, k).max,
                                           ChannelMinMax(s, d, k).min)), min)
                       ELSE d.data[k]]]

\* normalize_min_max that scans the source before it compares the sizes
NormalizeMinMaxExpr_ScanFirst(s, d, min, max) ==
    LET mm == FindMinMaxExpr(s)
    IN  IF mm.status # "Ok" THEN [status |-> mm.status, data |-> d.data]
        ELSE IF Size(s) # Size(d) THEN [status |-> "InvalidImageSize", data |-> d.data]
        ELSE [status |-> "Ok",
              data |-> [k \in 1 .. Len(d.data) |->
                  IF InZip(s, d, k)
                  THEN RAdd(RDiv(RMul(RSub(s.data[k], mm.min), RSub(max, min)),
                                 RSub(mm.max, mm.min)), min)
                  ELSE d.data[k]]]

\* normalize_min_max(&src, &mut dst, min, max)
NormalizeMinMaxExpr(s, d, min, max) ==
    IF Size(s) # Size(d) THEN [status |-> "InvalidImageSize", data |-> d.data]
    ELSE LET mm == FindMinMaxExpr(s)
         IN  IF mm.status # "Ok" THEN [status |-> mm.status, data |-> d.data]
             ELSE [status |-> "Ok",
                   data |-> [k \in 1 .. Len(d.data) |->
                       IF InZip(s, d, k)
                       THEN RAdd(RDiv(RMul(RSub(s.data[k], mm.min), RSub(max, min)),
                                      RSub(mm.max, mm.min)), min)
                       ELSE d.data[k]]]

\* the per-channel means and standard deviations the caller passes (their
\* first CHANNELS entries), and the target ranges (min, max)
Means == {<<R(1, 2), Q(1)>>, <<Q(-1), R(3, 2)>>}

Stds == {<<Q(1), Q(2)>>, <<Q(2), Q(0)>>}

Ranges == {<<Q(0), Q(1)>>, <<Q(-1), Q(1)>>}

---------------------------------------------------------------------------
(* warp_perspective *)

\* m[i] of a PerspectiveMatrix, a flat row-major 3x3 matrix, i from 0
At(m, i) == m[i + 1]

P2(a, b, c, d) == RSub(RMul(a, b), RMul(c, d))

determinant3x3(m) ==
    RAdd(RSub(RMul(At(m, 0), P2(At(m, 4), At(m, 8), At(m, 5), At(m, 7))),
              RMul(At(m, 1), P2(At(m, 3), At(m, 8), At(m, 5), At(m, 6)))),
         RMul(At(m, 2), P2(At(m, 3), At(m, 7), At(m, 4), At(m, 6))))

\* the adjugate with the sign of its entry [0, 2] wrong
adjugate3x3_SignError(m) ==
    << P2(At(m, 4), At(m, 8), At(m, 5), At(m, 7)),
       P2(At(m, 2), At(m, 7), At(m, 1), At(m, 8)),
       P2(At(m, 2), At(m, 4), At(m, 1), At(m, 5)),
       P2(At(m, 5), At(m, 6), At(m, 3), At(m, 8)),
       P2(At(m, 0), At(m, 8), At(m, 2), At(m, 6)),
       P2(At(m, 2), At(m, 3), At(m, 0), At(m, 5)),
       P2(At(m, 3), At(m, 7), At(m, 4), At(m, 6)),
       P2(At(m, 1), At(m, 6), At(m, 0), At(m, 7)),
       P2(At(m, 0), At(m, 4), At(m, 1), At(m, 3)) >>

adjugate3x3(m) ==
    << P2(At(m, 4), At(m, 8), At(m, 5), At(m, 7)),
       P2(At(m, 2), At(m, 7), At(m, 1), At(m, 8)),
       P2(At(m, 1), At(m, 5), At(m, 2), At(m, 4)),
       P2(At(m, 5), At(m, 6), At(m, 3), At(m, 8)),
       P2(At(m, 0), At(m, 8), At(m, 2), At(m, 6)),
       P2(At(m, 2), At(m, 3), At(m, 0), At(m, 5)),
       P2(At(m, 3), At(m, 7), At(m, 4), At(m, 6)),
       P2(At(m, 1), At(m, 6), At(m, 0), At(m, 7)),
       P2(At(m, 0), At(m, 4), At(m, 1), At(m, 3)) >>

\* the inverse computed without the test of the determinant
inverse_perspective_matrix_unchecked(m) ==
    LET inv_det == RDiv(Q(1), determinant3x3(m))
    IN  [status |-> "Ok",
         m |-> [i \in 1 .. 9 |-> RMul(adjugate3x3(m)[i], inv_det)]]

\* the inverse with a tolerance in the test of the determinant
inverse_perspective_matrix_Tolerant(m) ==
    LET det == determinant3x3(m)
    IN  IF RLt(R(-1, 100), det) /\ RLt(det, R(1, 100))
        THEN [status |-> "CannotComputeDeterminant", m |-> m]
        ELSE LET adj == adjugate3x3(m)
                 inv_det == RDiv(Q(1), det)
             IN  [status |-> "Ok", m |-> [i \in 1 .. 9 |-> RMul(adj[i], inv_det)]]

inverse_perspective_matrix(m) ==
    LET det == determinant3x3(m)
    IN  IF REq(det, Q(0))
        THEN [status |-> "CannotComputeDeterminant", m |-> m]
        ELSE LET adj == adjugate3x3(m)
                 inv_det == RDiv(Q(1), det)
             IN  [status |-> "Ok", m |-> [i \in 1 .. 9 |-> RMul(adj[i], inv_det)]]

\* transform_point with y computed from the x it was given
transform_point_FromGivenX(x, y, m) ==
    LET w == RAdd(RAdd(RMul(At(m, 6), x), RMul(At(m, 7), y)), At(m, 8))
        x1 == RDiv(RAdd(RAdd(RMul(At(m, 0), x), RMul(At(m, 1), y)), At(m, 2)), w)
        y1 == RDiv(RAdd(RAdd(RMul(At(m, 3), x), RMul(At(m, 4), y)), At(m, 5)), w)
    IN  <<x1, y1>>

\* transform_point that returns its coordinates in the order (y, x)
transform_point_Transposed(x, y, m) ==
    LET w == RAdd(RAdd(RMul(At(m, 6), x), RMul(At(m, 7), y)), At(m, 8))
        x1 == RDiv(RAdd(RAdd(RMul(At(m, 0), x), RMul(At(m, 1), y)), At(m, 2)), w)
        y1 == RDiv(RAdd(RAdd(RMul(At(m, 3), x1), RMul(At(m, 4), y)), At(m, 5)), w)
    IN  <<y1, x1>>

\* transform_point: y is computed from the x already transformed
transform_point(x, y, m) ==
    LET w == RAdd(RAdd(RMul(At(m, 6), x), RMul(At(m, 7), y)), At(m, 8))
        x1 == RDiv(RAdd(RAdd(RMul(At(m, 0), x), RMul(At(m, 1), y)), At(m, 2)), w)
        y1 == RDiv(RAdd(RAdd(RMul(At(m, 3), x1), RMul(At(m, 4), y)), At(m, 5)), w)
    IN  <<x1, y1>>

\* a coordinate held to the pixel range [0, n - 1] of an axis of n >= 1
\* pixels (NaN to 0)
ClampCoord(x, n) ==
    IF IsNaN(x) THEN Q(0)
    ELSE IF RLt(x, Q(0)) THEN Q(0)
    ELSE IF RLt(Q(n - 1), x) THEN Q(n - 1)
    ELSE x

\* the nearest integer of a number >= 0, halves rounded up
RoundNat(x) == (2 * x.n + x.d) \div (2 * x.d)

InterpolationModes == {"nearest", "bilinear"}

\* interpolate_pixel: the sample of channel c of the image at the real
\* coordinate (u, v), coordinates outside the image taking the edge's value
interpolate_pixel(img, u, v, c, interpolation) ==
    LET uc == ClampCoord(u, Width(img))
        vc == ClampCoord(v, Height(img))
    IN  IF interpolation = "nearest"
        THEN GetUnchecked(img, RoundNat(vc), RoundNat(uc), c)
        ELSE LET iu == Trunc(uc)
                 iv == Trunc(vc)
                 iu1 == Min(iu + 1, Width(img) - 1)
                 iv1 == Min(iv + 1, Height(img) - 1)
                 fu == RSub(uc, Q(iu))
                 fv == RSub(vc, Q(iv))
                 gu == RSub(Q(1), fu)
                 gv == RSub(Q(1), fv)
             IN  RAdd(RAdd(RMul(GetUnchecked(img, iv, iu, c), RMul(gu, gv)),
                           RMul(GetUnchecked(img, iv, iu1, c), RMul(fu, gv))),
                      RAdd(RMul(GetUnchecked(img, iv1, iu, c), RMul(gu, fv)),
                           RMul(GetUnchecked(img, iv1, iu1, c), RMul(fu, fv))))

\* meshgrid of the ranges 0..width and 0..height, stacked: the (u, v) of
\* the pixel p of the destination, its pixels counted in row-major order
MeshUV(d, p) == <<Q(p % Width(d)), Q(p \div Width(d))>>

\* warp_perspective that refuses a destination of another size
WarpPerspectiveExpr_SameSizeOnly(s, d, m, interpolation) ==
    LET inv == inverse_perspective_matrix(m)
    IN  IF Size(s) # Size(d) THEN [status |-> "InvalidImageSize", data |-> d.data]
        ELSE IF inv.status # "Ok" THEN [status |-> inv.status, data |-> d.data]
        ELSE [status |-> "Ok",
              data |-> [k \in 1 .. Len(d.data) |->
                  LET uv == MeshUV(d, (k - 1) \div NumChannels(s))
                      p == transform_point(uv[1], uv[2], inv.m)
                  IN  interpolate_pixel(s, p[1], p[2], (k - 1) % NumChannels(s),
                                        interpolation)]]

\* warp_perspective(&src, &mut dst, &m, interpolation)
WarpPerspectiveExpr(s, d, m, interpolation) ==
    LET inv == inverse_perspective_matrix(m)
    IN  IF inv.status # "Ok" THEN [status |-> inv.status, data |-> d.data]
        ELSE [status |-> "Ok",
              data |-> [k \in 1 .. Len(d.data) |->
                  LET uv == MeshUV(d, (k - 1) \div NumChannels(s))
                      p == transform_point(uv[1], uv[2], inv.m)
                  IN  interpolate_pixel(s, p[1], p[2], (k - 1) % NumChannels(s),
                                        interpolation)]]

\* the coordinate of the source the warp samples for the pixel p of the
\* destination: transform_point(u, v, inv_m)
SampleCoord(d, m, p) ==
    LET uv == MeshUV(d, p)
    IN  transform_point(uv[1], uv[2], inverse_perspective_matrix(m).m)

Mat(a, b, c, d, e, f, g, h, i) ==
    <<Q(a), Q(b), Q(c), Q(d), Q(e), Q(f), Q(g), Q(h), Q(i)>>

\* the matrices the caller warps with: the identity, the horizontal flip of
\* a width of 2, a translation, a shear, a projective map, two singular
\* matrices, and a shear with a translation
Matrices ==
    { Mat(1, 0, 0, 0, 1, 0, 0, 0, 1),
      Mat(-1, 0, 1, 0, 1, 0, 0, 0, 1),
      Mat(1, 0, -1, 0, 1, 1, 0, 0, 1),
      Mat(1, 0, 0, 1, 1, 0, 0, 0, 1),
      Mat(2, 0, 0, 0, 1, 0, 1, 0, 1),
      Mat(0, 0, 0, 0, 0, 0, 0, 0, 0),
      Mat(1, 2, 0, 2, 4, 0, 0, 0, 1),
      Mat(1, 0, 1, 1, 1, 0, 0, 0, 1) }

CallRec(op, status, args) == [op |-> op, status |-> status, args |-> args]

NoArgs == [none |-> TRUE]

---------------------------------------------------------------------------
(* The caller's operations.  Every call replaces `call` and `outs`. *)

Init ==
    /\ src = NoImage
    /\ dst = NoImage
    /\ outs = <<>>
    /\ call = CallRec("none", "Ok", NoArgs)

\* let src = Image::<t, c>::new(size, data)?: the one ingestion point of
\* raw buffers, and the caller's first call
New ==
    /\ call.op = "none"
    /\ \E t \in Dtypes, c \in Channels, w \in Dims, h \in Dims : \E data \in Buffers(t) :
         LET r == NewExpr(t, c, ImageSize(w, h), data)
         IN  /\ src' = r.image
             /\ outs' = <<>>
             /\ call' = CallRec("new", r.status,
                                [dtype |-> t, channels |-> c, width |-> w,
                                 height |-> h, data |-> data])
             /\ UNCHANGED dst

\* ImageRGBU8Msg::default() or ImageGrayU8Msg::default(): the caller starts
\* from the image of a default message
DefaultMsg ==
    /\ call.op = "none"
    /\ \E c \in {RgbChannels, GrayChannels} :
         LET r == DefaultMsgExpr(c)
         IN  /\ src' = r.image
             /\ outs' = <<>>
             /\ call' = CallRec("default", IF r.status = "Ok" THEN "Ok" ELSE "panic",
                                [channels |-> c])
             /\ UNCHANGED dst

\* let mut dst = Image::<t, CHANNELS>::from_size_val(size, val)?: the
\* destination the caller allocates for the operations on src (which take
\* both images with the same CHANNELS); it allocates one destination (another
\* one, allocated later, would be one of the destinations allocated here)
FromSizeVal ==
    /\ Exists(src)
    /\ ~Exists(dst)
    /\ \E t \in Dtypes, w \in Dims, h \in Dims : \E val \in ValsOf(t) :
         /\ w * h * NumChannels(src) <= MaxLen
         /\ LET r == FromSizeValExpr(t, NumChannels(src), ImageSize(w, h), val)
            IN  /\ dst' = (IF r.status = "Ok" THEN r.image ELSE dst)
                /\ outs' = <<>>
                /\ call' = CallRec("from_size_val", r.status,
                                   [dtype |-> t, channels |-> NumChannels(src),
                                    width |-> w, height |-> h, val |-> val])
                /\ UNCHANGED src

\* the calls that take &self and return new images; they commute with every
\* other call, and the caller makes them before it allocates a destination
Cast ==
    /\ Exists(src)
    /\ ~Exists(dst)
    /\ \E u \in Dtypes :
         /\ <<src.dtype, u>> \in IntoPairs
         /\ LET r == CastExpr(src, u)
            IN  /\ outs' = (IF r.status = "Ok" THEN <<r.image>> ELSE <<>>)
                /\ call' = CallRec("cast", IF r.status = "Ok" THEN "Ok" ELSE "panic",
                                   [dtype |-> u])
    /\ UNCHANGED <<src, dst>>

Channel ==
    /\ Exists(src)
    /\ ~Exists(dst)
    /\ \E channel \in 0 .. MaxChannel :
         LET r == ChannelExpr(src, channel)
         IN  /\ outs' = (IF r.status = "Ok" THEN <<r.image>> ELSE <<>>)
             /\ call' = CallRec("channel", r.status, [channel |-> channel])
    /\ UNCHANGED <<src, dst>>

SplitChannels ==
    /\ Exists(src)
    /\ ~Exists(dst)
    /\ LET r == SplitChannelsExpr(src)
       IN  /\ outs' = r.images
           /\ call' = CallRec("split_channels", r.status, NoArgs)
    /\ UNCHANGED <<src, dst>>

Powi ==
    /\ Exists(src)
    /\ ~Exists(dst)
    /\ src.dtype = "f32"
    /\ \E n \in Exponents :
         /\ outs' = <<PowiExpr(src, n)>>
         /\ call' = CallRec("powi", "Ok", [n |-> n])
    /\ UNCHANGED <<src, dst>>

Abs ==
    /\ Exists(src)
    /\ ~Exists(dst)
    /\ src.dtype = "f32"
    /\ outs' = <<AbsExpr(src)>>
    /\ call' = CallRec("abs", "Ok", NoArgs)
    /\ UNCHANGED <<src, dst>>

\* image.get_pixel(x, y, ch), on the source, or on the destination that
\* from_size_val has just returned; `ret` is <<v>> for Ok(v)
GetPixel ==
    /\ \E x \in 0 .. MaxDim, y \in 0 .. MaxDim, ch \in 0 .. MaxChannel :
         \E which \in {"src", "dst"} :
           LET image == IF which = "src" THEN src ELSE dst
               r == GetPixelExpr(image, x, y, ch)
           IN  /\ Exists(image)
               /\ which = "src" => ~Exists(dst)
               /\ which = "dst" => call.op = "from_size_val"
               /\ call' = [op |-> "get_pixel", status |-> r.status,
                           args |-> [image |-> image, x |-> x, y |-> y, ch |-> ch],
                           ret |-> r.val]
    /\ outs' = <<>>
    /\ UNCHANGED <<src, dst>>

\* msg.encode(encoder), of the message that holds the source: `ret` is what
\* the encoder has received
Encode ==
    /\ Exists(src)
    /\ ~Exists(dst)
    /\ src.dtype = "u8"
    /\ NumChannels(src) \in {RgbChannels, GrayChannels}
    /\ call' = [op |-> "encode", status |-> "Ok", args |-> NoArgs,
                ret |-> EncodeExpr(src)]
    /\ outs' = <<>>
    /\ UNCHANGED <<src, dst>>

\* Msg::decode(decoder), of what encode has written, by the message type
\* that wrote it: the image of the message decoded is returned in `outs`
Decode ==
    /\ call.op = "encode"
    /\ LET r == DecodeExpr(NumChannels(src), call.ret)
       IN  /\ outs' = (IF r.status = "Ok" THEN <<r.image>> ELSE <<>>)
           /\ call' = CallRec("decode", IF r.status = "Ok" THEN "Ok" ELSE "DecodeError",
                              [rows |-> call.ret[1], cols |-> call.ret[2],
                               data |-> call.ret[3]])
    /\ UNCHANGED <<src, dst>>

\* The operations on a source and a destination.  The caller allocates the
\* destination of each operation right before it, as the tests and the doc
\* examples do, and both images have the same CHANNELS (the type's)
Fresh == call.op = "from_size_val"

\* cast_and_scale(&src, &mut dst, scale)
CastAndScale ==
    /\ Exists(src)
    /\ Exists(dst)
    /\ Fresh
    /\ NumChannels(src) = NumChannels(dst)
    /\ \E scale \in ScalesOf(dst.dtype) :
         LET r == CastAndScaleExpr(src, dst, scale)
         IN  /\ dst' = [dst EXCEPT !.data = r.data]
             /\ outs' = <<>>
             /\ call' = CallRec("cast_and_scale", r.status, [scale |-> scale])
    /\ UNCHANGED src

\* normalize_mean_std(&src, &mut dst, &mean, &std): both images of one
\* float type
NormalizeMeanStd ==
    /\ Exists(src)
    /\ Exists(dst)
    /\ Fresh
    /\ NumChannels(src) = NumChannels(dst)
    /\ src.dtype = "f32"
    /\ dst.dtype = "f32"
    /\ \E mean \in Means, std \in Stds :
         LET r == NormalizeMeanStdExpr(src, dst, mean, std)
         IN  /\ dst' = [dst EXCEPT !.data = r.data]
             /\ outs' = <<>>
             /\ call' = CallRec("normalize_mean_std", r.status,
                                [mean |-> mean, std |-> std])
    /\ UNCHANGED src

\* normalize_min_max(&src, &mut dst, min, max)
NormalizeMinMax ==
    /\ Exists(src)
    /\ Exists(dst)
    /\ Fresh
    /\ NumChannels(src) = NumChannels(dst)
    /\ src.dtype = "f32"
    /\ dst.dtype = "f32"
    /\ \E range \in Ranges :
         LET r == NormalizeMinMaxExpr(src, dst, range[1], range[2])
         IN  /\ dst' = [dst EXCEPT !.data = r.data]
             /\ outs' = <<>>
             /\ call' = CallRec("normalize_min_max", r.status,
                                [min |-> range[1], max |-> range[2]])
    /\ UNCHANGED src

\* warp_perspective(&src, &mut dst, &m, interpolation), on f32 images; the
\* caller samples a source that has pixels
WarpPerspective ==
    /\ Exists(src)
    /\ Exists(dst)
    /\ Fresh
    /\ NumChannels(src) = NumChannels(dst)
    /\ src.dtype = "f32"
    /\ dst.dtype = "f32"
    /\ Len(src.data) > 0
    /\ \E m \in Matrices, interpolation \in InterpolationModes :
         LET r == WarpPerspectiveExpr(src, dst, m, interpolation)
         IN  /\ dst' = [dst EXCEPT !.data = r.data]
             /\ outs' = <<>>
             /\ call' = CallRec("warp_perspective", r.status,
                                [m |-> m, interpolation |-> interpolation])
    /\ UNCHANGED src

\* find_min_max(&image), of the source or of the destination; `ret` is the
\* pair (min, max) it returns
FindMinMax ==
    /\ \E image \in {src, dst} :
         /\ Exists(image)
         /\ LET r == FindMinMaxExpr(image)
            IN  call' = [op |-> "find_min_max", status |-> r.status,
                         args |-> [image |-> image], ret |-> <<r.min, r.max>>]
    /\ outs' = <<>>
    /\ UNCHANGED <<src, dst>>

---------------------------------------------------------------------------
(* The data-parallel loops of normalize_mean_std, normalize_min_max and     *)
(* warp_perspective, step by step.  While its loop runs, a call has the      *)
(* status "running" and `call.loop` holds the loop: the pixels no worker has *)
(* taken yet, the pixel and the channel each worker is at, the working copy  *)
(* dst_data of the destination, and how often each of its elements has been  *)
(* written.                                                                   *)

ParOps == {"normalize_mean_std", "normalize_min_max", "warp_perspective"}

\* the matrices the loops are run with: the horizontal flip, the projective
\* map and a singular matrix
ParMatrices ==
    { Mat(-1, 0, 1, 0, 1, 0, 0, 0, 1),
      Mat(2, 0, 0, 0, 1, 0, 1, 0, 1),
      Mat(1, 2, 0, 2, 4, 0, 0, 0, 1) }

\* the calls the caller makes: the operation and its arguments
ParCalls ==
    {[op |-> "normalize_mean_std", args |-> [mean |-> mean, std |-> std]] :
        mean \in Means, std \in Stds}
    \cup {[op |-> "normalize_min_max", args |-> [min |-> range[1], max |-> range[2]]] :
        range \in Ranges}
    \cup {[op |-> "warp_perspective", args |-> [m |-> m, interpolation |-> interpolation]] :
        m \in ParMatrices, interpolation \in InterpolationModes}

\* what a call does before its loop: the test of the sizes, find_min_max,
\* the inverse of the matrix; env is what the closure of the loop captures
ParPrelude(op, s, d, args) ==
    IF op = "warp_perspective"
    THEN LET inv == inverse_perspective_matrix(args.m)
         IN  [status |-> inv.status, env |-> inv.m]
    ELSE IF Size(s) # Size(d) THEN [status |-> "InvalidImageSize", env |-> <<>>]
    ELSE IF op = "normalize_min_max"
    THEN LET mm == FindMinMaxExpr(s)
         IN  [status |-> mm.status, env |-> <<mm.min, mm.max>>]
    ELSE [status |-> "Ok", env |-> <<>>]

\* the closures of the loops: the value written to the channel c of the
\* pixel p of the destination (pixels counted in row-major order)
MeanStdPixel(s, args, p, c) ==
    RDiv(RSub(s.data[p * NumChannels(s) + c + 1], args.mean[c + 1]), args.std[c + 1])

MinMaxPixel(s, args, env, p, c) ==
    RAdd(RDiv(RMul(RSub(s.data[p * NumChannels(s) + c + 1], env[1]),
                   RSub(args.max, args.min)),
              RSub(env[2], env[1])), args.min)

\* a closure of the warp that leaves a pixel as it was when its sample falls
\* outside the source
WarpPixel_KeepsOutside(s, d, args, env, p, c) ==
    LET uv == MeshUV(d, p)
        q == transform_point(uv[1], uv[2], env)
    IN  IF /\ IsFinite(q[1]) /\ IsFinite(q[2])
           /\ ~RLt(q[1], Q(0)) /\ ~RLt(Q(Width(s) - 1), q[1])
           /\ ~RLt(q[2], Q(0)) /\ ~RLt(Q(Height(s) - 1), q[2])
        THEN interpolate_pixel(s, q[1], q[2], c, args.interpolation)
        ELSE d.data[p * NumChannels(d) + c + 1]

WarpPixel(s, d, args, env, p, c) ==
    LET uv == MeshUV(d, p)
        q == transform_point(uv[1], uv[2], env)
    IN  interpolate_pixel(s, q[1], q[2], c, args.interpolation)

PixelValue(op, s, d, args, env, p, c) ==
    IF op = "normalize_mean_std" THEN MeanStdPixel(s, args, p, c)
    ELSE IF op = "normalize_min_max" THEN MinMaxPixel(s, args, env, p, c)
    ELSE WarpPixel(s, d, args, env, p, c)

\* a closure that writes the channel c of every pixel to the first pixel
ParLocation_FirstPixel(d, p, c) == c + 1

\* out[c] of the row of the pixel p: the element of dst_data it is
ParLocation(d, p, c) == p * NumChannels(d) + c + 1

Idle == <<>>

\* the call starts: it returns its error, or it copies the destination and
\* starts its loop over the pixels of the destination on some workers
ParBegin ==
    /\ Exists(src)
    /\ Exists(dst)
    /\ Fresh
    /\ NumChannels(src) = NumChannels(dst)
    /\ src.dtype = "f32"
    /\ dst.dtype = "f32"
    /\ \E c \in ParCalls, n \in 1 .. MaxWorkers :
         /\ c.op = "warp_perspective" => Len(src.data) > 0
         /\ LET pre == ParPrelude(c.op, src, dst, c.args)
            IN  call' = IF pre.status # "Ok"
                        THEN [op |-> c.op, status |-> pre.status, args |-> c.args,
                              workers |-> n]
                        ELSE [op |-> c.op, status |-> "running", args |-> c.args,
                              workers |-> n,
                              loop |-> [pending |-> 0 .. Height(dst) * Width(dst) - 1,
                                        cur |-> [w \in 1 .. n |-> Idle],
                                        data |-> dst.data,
                                        count |-> [k \in 1 .. Len(dst.data) |-> 0],
                                        env |-> pre.env]]
    /\ outs' = <<>>
    /\ UNCHANGED <<src, dst>>

\* a worker that is idle takes any pixel no worker has taken
ParTake ==
    /\ call.status = "running"
    /\ \E w \in 1 .. call.workers, p \in call.loop.pending :
         /\ call.loop.cur[w] = Idle
         /\ call' = [call EXCEPT !.loop.pending = @ \ {p},
                                 !.loop.cur[w] = <<p, 0>>]
    /\ UNCHANGED <<src, dst, outs>>

\* a worker writes the next channel of its pixel: out[c] = pixel
ParWrite ==
    /\ call.status = "running"
    /\ \E w \in 1 .. call.workers :
         /\ call.loop.cur[w] # Idle
         /\ LET p == call.loop.cur[w][1]
                c == call.loop.cur[w][2]
                k == ParLocation(dst, p, c)
            IN  call' = [call EXCEPT
                           !.loop.data[k] = PixelValue(call.op, src, dst, call.args,
                                                       call.loop.env, p, c),
                           !.loop.count[k] = @ + 1,
                           !.loop.cur[w] = IF c + 1 < NumChannels(src)
                                           THEN <<p, c + 1>> ELSE Idle]
    /\ UNCHANGED <<src, dst, outs>>

\* every pixel is done: dst_data is copied back to the destination and the
\* call returns Ok(())
ParEnd ==
    /\ call.status = "running"
    /\ call.loop.pending = {}
    /\ \A w \in 1 .. call.workers : call.loop.cur[w] = Idle
    /\ dst' = [dst EXCEPT !.data = call.loop.data]
    /\ call' = [op |-> call.op, status |-> "Ok", args |-> call.args,
                workers |-> call.workers]
    /\ UNCHANGED <<src, outs>>

ParNext ==
    \/ New
    \/ FromSizeVal
    \/ ParBegin
    \/ ParTake
    \/ ParWrite
    \/ ParEnd

ParSpec == Init /\ [][ParNext]_vars

---------------------------------------------------------------------------
---------------------------------------------------------------------------
(* The functions of the warp called by themselves, as the unit tests of      *)
(* perspective.rs call them; `ret` is what the function returns.             *)

\* the coordinates transform_point is called with
Coords == {Q(-1), Q(0), Q(1), Q(2)}

\* the matrices the functions are called with: those of the warp, and a
\* matrix with a small determinant
FnMatrices ==
    Matrices \cup {<<R(1, 1000), Q(0), Q(0), Q(0), Q(1), Q(0), Q(0), Q(0), Q(1)>>}

\* let (x, y) = transform_point(x, y, m)
TransformPoint ==
    /\ \E x \in Coords, y \in Coords, m \in FnMatrices :
         call' = [op |-> "transform_point", status |-> "Ok",
                  args |-> [x |-> x, y |-> y, m |-> m],
                  ret |-> transform_point(x, y, m)]
    /\ outs' = <<>>
    /\ UNCHANGED <<src, dst>>

\* let inv_m = inverse_perspective_matrix(&m)
InversePerspectiveMatrix ==
    /\ \E m \in FnMatrices :
         LET r == inverse_perspective_matrix(m)
         IN  call' = [op |-> "inverse_perspective_matrix", status |-> r.status,
                      args |-> [m |-> m],
                      ret |-> IF r.status = "Ok" THEN r.m ELSE <<>>]
    /\ outs' = <<>>
    /\ UNCHANGED <<src, dst>>

FnNext ==
    \/ TransformPoint
    \/ InversePerspectiveMatrix

FnSpec == Init /\ [][FnNext]_vars

---------------------------------------------------------------------------
Next ==
    \/ New
    \/ DefaultMsg
    \/ FromSizeVal
    \/ Cast
    \/ Channel
    \/ SplitChannels
    \/ Powi
    \/ Abs
    \/ GetPixel
    \/ Encode
    \/ Decode
    \/ CastAndScale
    \/ NormalizeMeanStd
    \/ NormalizeMinMax
    \/ FindMinMax
    \/ WarpPerspective

Spec == Init /\ [][Next]_vars

---------------------------------------------------------------------------
(* Properties *)

\* every image the caller holds
AllImages == {src, dst} \cup {outs[i] : i \in 1 .. Len(outs)}

NumElements(img) == img.shape[1] * img.shape[2] * img.shape[3]

\* the last call was Image::new with a buffer of exactly width*height*CHANNELS
NewWithMatchingLength ==
    /\ call.op = "new"
    /\ Len(call.args.data) = call.args.width * call.args.height * call.args.channels

NewWithOtherLength ==
    /\ call.op = "new"
    /\ Len(call.args.data) # call.args.width * call.args.height * call.args.channels

\* C1: Image::new with data.length == width*height*CHANNELS succeeds, and the
\* image reports size().width == width, size().height == height and
\* num_channels() == CHANNELS; its buffer is the data, indexed
\* [height, width, channel]
C1_NewRoundTrips ==
    NewWithMatchingLength =>
        /\ call.status = "Ok"
        /\ Exists(src)
        /\ Size(src).width = call.args.width
        /\ Size(src).height = call.args.height
        /\ NumChannels(src) = call.args.channels
        /\ src.shape = <<call.args.height, call.args.width, call.args.channels>>
        /\ src.data = call.args.data

C1_Witness ==
    /\ NewWithMatchingLength
    /\ call.status = "Ok"
    /\ call.args.width = 2
    /\ call.args.height = 1
    /\ call.args.channels = 2

\* C2 as stated: Image::new with a data length other than
\* width*height*CHANNELS fails with ShapeMismatch
C2_FailsWithShapeMismatch ==
    NewWithOtherLength => call.status = "ShapeMismatch"

\* C2, amended: Image::new with a data length other than
\* width*height*CHANNELS returns the error InvalidChannelShape; it does not
\* panic, and it builds no image (the data is neither truncated nor padded)
C2_NewRejectsOtherLengths ==
    NewWithOtherLength =>
        /\ call.status = "InvalidChannelShape"
        /\ ~Exists(src)

C2_Witness ==
    /\ NewWithOtherLength
    /\ call.status = "InvalidChannelShape"
    /\ call.args.width * call.args.height * call.args.channels > 0
    /\ Len(call.args.data) > call.args.width * call.args.height * call.args.channels

\* C3: after every sequence of calls the buffer of every image has
\* height*width*CHANNELS elements, and from_size_val always succeeds, with
\* exactly width*height*CHANNELS copies of the fill value
C3_BufferLengthIsShapeProduct ==
    /\ \A img \in AllImages : Exists(img) => Len(img.data) = NumElements(img)
    /\ call.op = "from_size_val" =>
        /\ call.status = "Ok"
        /\ dst.dtype = call.args.dtype
        /\ dst.shape = <<call.args.height, call.args.width, call.args.channels>>
        /\ Len(dst.data) = call.args.width * call.args.height * call.args.channels
        /\ \A i \in 1 .. Len(dst.data) : dst.data[i] = call.args.val

C3_Witness ==
    /\ call.op = "from_size_val"
    /\ Len(dst.data) = 4
    /\ NumChannels(dst) = 2

\* C4 as stated: the shape of every image is three positive integers
C4_ShapeIsPositive ==
    \A img \in AllImages :
        Exists(img) => img.shape[1] >= 1 /\ img.shape[2] >= 1 /\ img.shape[3] >= 1

\* C4, amended: the shape of every image is (height, width, CHANNELS) with
\* height >= 0 and width >= 0; Image::new accepts a zero width or height with
\* an empty buffer (the Default of the image messages is the 0 x 0 image),
\* and the buffer of an image is empty exactly when a dimension is zero
C4_ZeroDimensionsAreAccepted ==
    /\ \A img \in AllImages :
         Exists(img) =>
            /\ img.shape[1] >= 0
            /\ img.shape[2] >= 0
            /\ (img.data = <<>>) <=> (0 \in {img.shape[1], img.shape[2], img.shape[3]})
    /\ (NewWithMatchingLength /\ 0 \in {call.args.width, call.args.height}) =>
         call.status = "Ok" /\ Exists(src) /\ src.data = <<>>
    /\ call.op = "default" =>
         /\ call.status = "Ok"
         /\ src.shape = <<0, 0, call.args.channels>>
         /\ src.data = <<>>

C4_Witness ==
    /\ call.op = "default"
    /\ Exists(src)
    /\ Width(src) = 0
    /\ Height(src) = 0
    /\ src.data = <<>>

\* C5: channel(index) fails with ChannelIndexOutOfBounds when
\* index >= CHANNELS; otherwise it returns a single-channel image of the
\* same (width, height) whose element [y, x, 0] is the source's element
\* [y, x, index], for every pixel, in row-major order
C5_ChannelExtracts ==
    call.op = "channel" =>
        IF call.args.channel >= NumChannels(src)
        THEN call.status = "ChannelIndexOutOfBounds" /\ outs = <<>>
        ELSE /\ call.status = "Ok"
             /\ Len(outs) = 1
             /\ outs[1].dtype = src.dtype
             /\ outs[1].shape = <<Height(src), Width(src), 1>>
             /\ Len(outs[1].data) = Height(src) * Width(src)
             /\ \A y \in 0 .. Height(src) - 1, x \in 0 .. Width(src) - 1 :
                  outs[1].data[y * Width(src) + x + 1]
                      = src.data[(y * Width(src) + x) * NumChannels(src)
                                 + call.args.channel + 1]

C5_Witness ==
    /\ call.op = "channel"
    /\ call.status = "Ok"
    /\ call.args.channel = 1
    /\ Width(src) = 2
    /\ Height(src) = 1
    /\ outs[1].data[1] # outs[1].data[2]

\* C6: split_channels returns exactly CHANNELS single-channel images, in
\* channel-index order, and the image at i equals channel(i)
C6_SplitChannelsIsChannelOfEach ==
    call.op = "split_channels" =>
        /\ call.status = "Ok"
        /\ Len(outs) = NumChannels(src)
        /\ \A i \in 0 .. NumChannels(src) - 1 :
             /\ outs[i + 1] = ChannelExpr(src, i).image
             /\ outs[i + 1].shape = <<Height(src), Width(src), 1>>
             /\ \A k \in 1 .. Height(src) * Width(src) :
                  outs[i + 1].data[k] = src.data[(k - 1) * NumChannels(src) + i + 1]

C6_Witness ==
    /\ call.op = "split_channels"
    /\ Len(outs) = 2
    /\ outs[1] # outs[2]

\* C7: cast_and_scale on images of different sizes fails with
\* InvalidImageSize and leaves the destination's buffer as it was
C7_CastAndScaleRejectsOtherSize ==
    [][(call'.op = "cast_and_scale" /\ Size(src) # Size(dst)) =>
          /\ call'.status = "InvalidImageSize"
          /\ dst' = dst
          /\ src' = src]_vars

C7_Witness ==
    /\ call.op = "cast_and_scale"
    /\ call.status = "InvalidImageSize"
    /\ Size(src) # Size(dst)
    /\ Len(src.data) > 0
    /\ Len(dst.data) > 0

\* C8: when cast_and_scale succeeds, every element of the destination is
\* NumCast(the source's element) * scale: the whole buffer is overwritten
\* and nothing of it depends on what the destination held before; u8 [0, 255]
\* with the scale 1/255 gives [0.0, 1.0]
C8_CastAndScaleIsElementwise ==
    (call.op = "cast_and_scale" /\ call.status = "Ok") =>
        /\ Len(dst.data) = Len(src.data)
        /\ \A i \in 1 .. Len(dst.data) :
             /\ NumCast(src.dtype, dst.dtype, src.data[i]) # <<>>
             /\ dst.data[i] = MulVal(dst.dtype,
                                     NumCast(src.dtype, dst.dtype, src.data[i])[1],
                                     call.args.scale)
        /\ (/\ src.dtype = "u8"
            /\ dst.dtype = "f32"
            /\ src.data = <<Q(0), Q(255)>>
            /\ call.args.scale = R(1, 255)) => dst.data = <<Q(0), Q(1)>>

C8_Witness ==
    /\ call.op = "cast_and_scale"
    /\ call.status = "Ok"
    /\ src.dtype = "u8"
    /\ dst.dtype = "f32"
    /\ src.data = <<Q(0), Q(255)>>
    /\ call.args.scale = R(1, 255)
    /\ dst.data = <<Q(0), Q(1)>>

\* a value of the type t that no value of the type u represents: a float
\* that is NaN, infinite, at most -1 or at least 256, for u8
NotRepresentable(t, u, x) ==
    /\ t = "f32"
    /\ u = "u8"
    /\ \/ x.d = 0
       \/ x.n <= -x.d
       \/ x.n >= 256 * x.d

\* C9: for a source and a destination of equal size, cast_and_scale fails
\* with CastError if and only if the conversion of at least one element of
\* the source to the destination's type is not representable
C9_CastErrorIffNotRepresentable ==
    (call.op = "cast_and_scale" /\ Size(src) = Size(dst)) =>
        /\ call.status \in {"Ok", "CastError"}
        /\ call.status = "CastError" <=>
             \E i \in 1 .. Len(src.data) :
                 NotRepresentable(src.dtype, dst.dtype, src.data[i])

C9_Witness ==
    /\ call.op = "cast_and_scale"
    /\ call.status = "CastError"
    /\ Len(src.data) >= 2
    /\ ~NotRepresentable(src.dtype, dst.dtype, src.data[1])
    /\ NotRepresentable(src.dtype, dst.dtype, src.data[2])

\* the determinant of a matrix of integers, by the rule of Sarrus
IntDet(m) ==
    LET e(i) == m[i + 1].n
    IN  e(0) * e(4) * e(8) + e(1) * e(5) * e(6) + e(2) * e(3) * e(7)
        - e(2) * e(4) * e(6) - e(1) * e(3) * e(8) - e(0) * e(5) * e(7)

\* C10: warp_perspective fails if and only if the determinant of the matrix
\* is exactly zero (the matrix of zeros, say), with CannotComputeDeterminant:
\* its only error, returned before any pixel of the destination is written
C10_WarpFailsIffSingular ==
    [][call'.op = "warp_perspective" =>
          /\ call'.status \in {"Ok", "CannotComputeDeterminant"}
          /\ call'.status = "CannotComputeDeterminant" <=> IntDet(call'.args.m) = 0
          /\ call'.status # "Ok" => dst' = dst
          /\ src' = src]_vars

C10_Witness ==
    /\ call.op = "warp_perspective"
    /\ call.status = "CannotComputeDeterminant"
    /\ call.args.m = Mat(0, 0, 0, 0, 0, 0, 0, 0, 0)
    /\ Len(dst.data) > 0

\* C11: warp_perspective takes a source and a destination of different
\* sizes (it never fails with InvalidImageSize), and after the call, failed
\* or not, the destination has the width, the height and the number of
\* elements it was allocated with: neither the source's size nor the matrix
\* changes the size of the output
C11_WarpKeepsDestinationSize ==
    [][call'.op = "warp_perspective" =>
          /\ call'.status # "InvalidImageSize"
          /\ Size(dst') = Size(dst)
          /\ NumChannels(dst') = NumChannels(dst)
          /\ Len(dst'.data) = Len(dst.data)]_vars

C11_Witness ==
    /\ call.op = "warp_perspective"
    /\ call.status = "Ok"
    /\ Size(src) = ImageSize(1, 2)
    /\ Size(dst) = ImageSize(2, 1)

Identity == Mat(1, 0, 0, 0, 1, 0, 0, 0, 1)

\* C12: warp_perspective with the identity matrix, nearest-neighbour
\* interpolation and a destination of the source's size gives a destination
\* buffer equal to the source's buffer
C12_IdentityNearestReproduces ==
    (/\ call.op = "warp_perspective"
     /\ call.args.m = Identity
     /\ call.args.interpolation = "nearest"
     /\ Size(src) = Size(dst)) =>
        /\ call.status = "Ok"
        /\ dst.data = src.data

C12_Witness ==
    /\ call.op = "warp_perspective"
    /\ call.args.m = Identity
    /\ call.args.interpolation = "nearest"
    /\ call.status = "Ok"
    /\ Size(src) = ImageSize(2, 2)
    /\ Size(dst) = ImageSize(2, 2)
    /\ dst.data = src.data
    /\ src.data[2] # src.data[3]

\* the horizontal flip of an image of width w
HFlip(w) == Mat(-1, 0, w - 1, 0, 1, 0, 0, 0, 1)

\* the image of the test warp_perspective_hflip, and its destination
HFlipSource ==
    [dtype |-> "f32", shape |-> <<3, 2, 1>>,
     data |-> <<Q(0), Q(1), Q(2), Q(3), Q(4), Q(5)>>]

HFlipDestination ==
    [dtype |-> "f32", shape |-> <<3, 2, 1>>, data |-> Repeat(Q(0), 6)]

\* C13: for a single-channel source of width W, warp_perspective with the
\* horizontal-flip matrix [-1,0,W-1, 0,1,0, 0,0,1] into a destination of the
\* same size reverses every row: dst[y][x] == src[y][W-1-x]; width 2,
\* height 3, data [0,1,2,3,4,5] gives [1,0,3,2,5,4]
C13_HFlipReversesRows ==
    (/\ call.op = "warp_perspective"
     /\ NumChannels(src) = 1
     /\ Size(src) = Size(dst)
     /\ call.args.m = HFlip(Width(src))) =>
        /\ call.status = "Ok"
        /\ \A y \in 0 .. Height(src) - 1, x \in 0 .. Width(src) - 1 :
             GetUnchecked(dst, y, x, 0) = GetUnchecked(src, y, Width(src) - 1 - x, 0)
        /\ WarpPerspectiveExpr(HFlipSource, HFlipDestination, HFlip(2),
                               call.args.interpolation)
             = [status |-> "Ok", data |-> <<Q(1), Q(0), Q(3), Q(2), Q(5), Q(4)>>]

C13_Witness ==
    /\ call.op = "warp_perspective"
    /\ call.status = "Ok"
    /\ call.args.interpolation = "bilinear"
    /\ NumChannels(src) = 1
    /\ Size(src) = ImageSize(2, 2)
    /\ Size(dst) = ImageSize(2, 2)
    /\ call.args.m = HFlip(2)
    /\ src.data = <<Q(-1), R(3, 2), R(3, 2), Q(-1)>>
    /\ dst.data = <<R(3, 2), Q(-1), Q(-1), R(3, 2)>>

\* C14: normalize_mean_std fails with InvalidImageSize when the source and
\* the destination differ in size, and leaves the destination as it was;
\* otherwise, for every pixel (y, x) and channel c, the destination's element
\* is (src[y][x][c] - mean[c]) / std[c], with the mean and the std of the
\* element's own channel
C14_NormalizeMeanStdPerChannel ==
    [][call'.op = "normalize_mean_std" =>
          IF Size(src) # Size(dst)
          THEN call'.status = "InvalidImageSize" /\ dst' = dst /\ src' = src
          ELSE /\ call'.status = "Ok"
               /\ src' = src
               /\ dst'.shape = dst.shape
               /\ Len(dst'.data) = Len(dst.data)
               /\ \A y \in 0 .. Height(src) - 1, x \in 0 .. Width(src) - 1,
                     c \in 0 .. NumChannels(src) - 1 :
                    GetUnchecked(dst', y, x, c)
                        = RDiv(RSub(GetUnchecked(src, y, x, c), call'.args.mean[c + 1]),
                               call'.args.std[c + 1])]_vars

C14_Witness ==
    /\ call.op = "normalize_mean_std"
    /\ call.status = "Ok"
    /\ call.args.mean = <<R(1, 2), Q(1)>>
    /\ call.args.std = <<Q(1), Q(2)>>
    /\ src.shape = <<1, 2, 2>>
    /\ src.data = <<R(3, 2), R(3, 2), Q(-1), Q(-1)>>
    /\ dst.data = <<Q(1), R(1, 4), R(-3, 2), Q(-1)>>

\* x <= y of the floats: false when x or y is NaN
RLe(x, y) == RLt(x, y) \/ REq(x, y)

HasNaN(data) == \E i \in 1 .. Len(data) : IsNaN(data[i])

\* what C15 and its amendment share: find_min_max fails, with
\* ImageDataNotInitialized, exactly on an image without elements, it returns
\* two elements of the buffer, and it changes no image
FindMinMaxFrame ==
    /\ call'.args.image \in {src, dst}
    /\ src' = src
    /\ dst' = dst
    /\ call'.status \in {"Ok", "ImageDataNotInitialized"}
    /\ call'.status = "ImageDataNotInitialized" <=> Len(call'.args.image.data) = 0
    /\ call'.status = "Ok" =>
         /\ \E i \in 1 .. Len(call'.args.image.data) :
                call'.args.image.data[i] = call'.ret[1]
         /\ \E i \in 1 .. Len(call'.args.image.data) :
                call'.args.image.data[i] = call'.ret[2]

\* C15 as stated: find_min_max fails with ImageDataNotInitialized if and
\* only if the image holds no element; otherwise it returns (min, max), both
\* of the buffer, with min <= e <= max for every element e, and the image is
\* not modified
C15_MinMaxBoundEveryElement ==
    [][call'.op = "find_min_max" =>
          /\ FindMinMaxFrame
          /\ call'.status = "Ok" =>
               \A i \in 1 .. Len(call'.args.image.data) :
                   /\ RLe(call'.ret[1], call'.args.image.data[i])
                   /\ RLe(call'.args.image.data[i], call'.ret[2])]_vars

\* C15, amended: find_min_max fails with ImageDataNotInitialized if and only
\* if the image holds no element; otherwise it returns (min, max), both of the
\* buffer, no element is less than min or greater than max, and the image is
\* not modified.  min <= e <= max holds for every element e when no element
\* is NaN; a NaN element is passed over by the scan, unless it is the first
\* element, and then min and max are both that NaN
C15_MinMaxOfComparableElements ==
    [][call'.op = "find_min_max" =>
          /\ FindMinMaxFrame
          /\ call'.status = "Ok" =>
               /\ \A i \in 1 .. Len(call'.args.image.data) :
                    /\ ~RLt(call'.args.image.data[i], call'.ret[1])
                    /\ ~RLt(call'.ret[2], call'.args.image.data[i])
               /\ ~HasNaN(call'.args.image.data) =>
                    \A i \in 1 .. Len(call'.args.image.data) :
                        /\ RLe(call'.ret[1], call'.args.image.data[i])
                        /\ RLe(call'.args.image.data[i], call'.ret[2])
               /\ IsNaN(call'.args.image.data[1]) =>
                    IsNaN(call'.ret[1]) /\ IsNaN(call'.ret[2])
               /\ ~IsNaN(call'.args.image.data[1]) =>
                    ~IsNaN(call'.ret[1]) /\ ~IsNaN(call'.ret[2])]_vars

C15_Witness ==
    /\ call.op = "find_min_max"
    /\ call.status = "Ok"
    /\ Len(call.args.image.data) = 4
    /\ ~IsNaN(call.args.image.data[1])
    /\ IsNaN(call.args.image.data[2])
    /\ call.args.image.data[3] # call.args.image.data[1]
    /\ RLt(call.ret[1], call.ret[2])

\* the minimum and the maximum of a buffer without NaN
MinOf(data) ==
    CHOOSE e \in {data[i] : i \in 1 .. Len(data)} :
        \A i \in 1 .. Len(data) : RLe(e, data[i])

MaxOf(data) ==
    CHOOSE e \in {data[i] : i \in 1 .. Len(data)} :
        \A i \in 1 .. Len(data) : RLe(data[i], e)

C17_DecodeRebuildsTheEncodedImage ==
    call.op = "decode" =>
        /\ call.args.rows = Height(src)
        /\ call.args.cols = Width(src)
        /\ call.args.data = src.data
        /\ call.status = "Ok"
        /\ Len(outs) = 1
        /\ Height(outs[1]) = Height(src)
        /\ Width(outs[1]) = Width(src)
        /\ outs[1].data = src.data

\* a message of 2 x 1 pixels (width 2, height 1) is decoded to an image of
\* 1 x 2 pixels: decode gives [rows, cols] to ImageSize::from, which reads
\* [width, height]
C17_Witness ==
    /\ call.op = "decode"
    /\ call.status = "Ok"
    /\ Width(src) = 2
    /\ Height(src) = 1
    /\ call.args.rows = 1
    /\ call.args.cols = 2
    /\ Len(outs) = 1
    /\ Width(outs[1]) = 1
    /\ Height(outs[1]) = 2
    /\ outs[1].data = src.data

\* what the call returns when its loop runs pixel by pixel, in buffer order,
\* on one thread
SequentialExpr(op, s, d, args) ==
    IF op = "normalize_mean_std"
    THEN NormalizeMeanStdExpr(s, d, args.mean, args.std)
    ELSE IF op = "normalize_min_max"
    THEN NormalizeMinMaxExpr(s, d, args.min, args.max)
    ELSE WarpPerspectiveExpr(s, d, args.m, args.interpolation)

\* the element k of dst_data is a channel of the pixel a worker is at
OwnedByAWorker(c, d, k) ==
    \E w \in 1 .. c.workers :
        /\ c.loop.cur[w] # Idle
        /\ (k - 1) \div NumChannels(d) = c.loop.cur[w][1]

\* C18: for normalize_mean_std, normalize_min_max and warp_perspective, the
\* destination's buffer after the call is the same for every number of
\* workers and every order or interleaving in which the loop takes the
\* pixels (it is the buffer of the sequential loop): every step of a worker
\* leaves the source as it is and writes only channels of the worker's own
\* pixel of the working copy, and no element is written twice
C18_ParallelLoopIsDeterministic ==
    [][/\ (call'.op \in ParOps /\ call'.status # "running") =>
            /\ call'.status = SequentialExpr(call'.op, src, dst, call'.args).status
            /\ dst'.data = SequentialExpr(call'.op, src, dst, call'.args).data
            /\ dst'.shape = dst.shape
            /\ src' = src
       /\ (call.status = "running" /\ call'.status = "running") =>
            /\ src' = src
            /\ dst' = dst
            /\ \A k \in 1 .. Len(dst.data) :
                 /\ call'.loop.count[k] <= 1
                 /\ call'.loop.count[k] # call.loop.count[k] =>
                        OwnedByAWorker(call, dst, k)
                 /\ call'.loop.data[k] # call.loop.data[k] =>
                        call'.loop.count[k] # call.loop.count[k]]_vars

\* two workers are each halfway through a pixel of two channels
C18_Witness ==
    /\ call.op = "warp_perspective"
    /\ call.status = "running"
    /\ call.workers = 2
    /\ NumChannels(dst) = 2
    /\ call.loop.pending = {}
    /\ call.loop.cur = <<<<1, 1>>, <<0, 1>>>>
    /\ call.loop.count = <<1, 0, 1, 0>>
    /\ Size(src) # Size(dst)

\* a value of the element type u: for u8, an integer of 0 .. 255
IsValueOf(u, x) == u = "u8" => (x.d = 1 /\ x.n >= 0 /\ x.n <= 255)

\* C19: cast() returns a new image of the same (width, height, channels)
\* whose element at every position is the source's element at that position,
\* converted to the target type (the same number); it leaves the source as
\* it was, and the cast of an integer image to its own element type has a
\* buffer equal to the original
C19_CastConvertsEveryElement ==
    [][call'.op = "cast" =>
          /\ call'.status = "Ok"
          /\ src' = src
          /\ Len(outs') = 1
          /\ outs'[1].dtype = call'.args.dtype
          /\ outs'[1].shape = src.shape
          /\ Len(outs'[1].data) = Len(src.data)
          /\ \A i \in 1 .. Len(src.data) :
                /\ REq(outs'[1].data[i], src.data[i])
                /\ IsValueOf(call'.args.dtype, outs'[1].data[i])
          /\ (src.dtype = "u8" /\ call'.args.dtype = "u8") =>
                outs'[1].data = src.data]_vars

C19_Witness ==
    /\ call.op = "cast"
    /\ call.status = "Ok"
    /\ src.dtype = "u8"
    /\ call.args.dtype = "f32"
    /\ src.shape = <<1, 2, 2>>
    /\ src.data = <<Q(0), Q(255), Q(255), Q(0)>>
    /\ Len(outs) = 1
    /\ outs[1].dtype = "f32"
    /\ outs[1].data = src.data

\* C20: get_pixel(x, y, ch) returns PixelIndexOutOfBounds when x >= width or
\* y >= height (the first test), otherwise ChannelIndexOutOfBounds when
\* ch >= CHANNELS, otherwise the element of the buffer at [y, x, ch]; for an
\* image built by new or from_size_val it never returns
\* ImageDataNotContiguous
C20_GetPixelChecksPixelThenChannel ==
    call.op = "get_pixel" =>
        /\ call.status # "ImageDataNotContiguous"
        /\ IF \/ call.args.x >= Width(call.args.image)
              \/ call.args.y >= Height(call.args.image)
           THEN call.status = "PixelIndexOutOfBounds" /\ call.ret = <<>>
           ELSE IF call.args.ch >= NumChannels(call.args.image)
           THEN call.status = "ChannelIndexOutOfBounds" /\ call.ret = <<>>
           ELSE /\ call.status = "Ok"
                /\ call.ret
                     = <<call.args.image.data[
                           (call.args.y * Width(call.args.image) + call.args.x)
                               * NumChannels(call.args.image) + call.args.ch + 1]>>

C20_Witness ==
    /\ call.op = "get_pixel"
    /\ call.status = "PixelIndexOutOfBounds"
    /\ call.args.image = dst
    /\ Exists(dst)
    /\ call.args.x >= Width(dst)
    /\ call.args.ch >= NumChannels(dst)
    /\ Len(dst.data) > 0

\* C21: transform_point(x, y, m) computes w = m[6]*x + m[7]*y + m[8], then
\* x' = (m[0]*x + m[1]*y + m[2]) / w, then y' = (m[3]*x' + m[4]*y + m[5]) / w
\* with the x' just computed, not the x it was given, and returns (x', y');
\* (1, 1) under [1,0,-1, 0,1,1, 0,0,1] gives (0, 2)
C21_TransformPointReusesX ==
    call.op = "transform_point" =>
        LET m == call.args.m
            x == call.args.x
            y == call.args.y
            w == RAdd(RAdd(RMul(m[7], x), RMul(m[8], y)), m[9])
            xn == RAdd(RAdd(RMul(m[1], x), RMul(m[2], y)), m[3])
        IN  /\ Len(call.ret) = 2
            /\ call.ret[1] = RDiv(xn, w)
            /\ call.ret[2]
                 = RDiv(RAdd(RAdd(RMul(m[4], call.ret[1]), RMul(m[5], y)), m[6]), w)
            /\ (m[7] = Q(0) /\ m[8] = Q(0) /\ m[9] = Q(1)) =>
                 \* an affine matrix: w is 1
                 /\ call.ret[1] = xn
                 /\ call.ret[2] = RAdd(RAdd(RMul(m[4], xn), RMul(m[5], y)), m[6])
            /\ (m = Mat(1, 0, -1, 0, 1, 1, 0, 0, 1) /\ x = Q(1) /\ y = Q(1)) =>
                 call.ret = <<Q(0), Q(2)>>
            /\ (m = Mat(1, 2, 0, 2, 4, 0, 0, 0, 1) /\ x = Q(1) /\ y = Q(1)) =>
                 call.ret = <<Q(3), Q(10)>>

\* a call where the x' computed differs from the x given, and y' shows it
C21_Witness ==
    /\ call.op = "transform_point"
    /\ call.args.m = Mat(1, 2, 0, 2, 4, 0, 0, 0, 1)
    /\ call.args.x = Q(1)
    /\ call.args.y = Q(1)
    /\ call.ret = <<Q(3), Q(10)>>

\* the product of two 3 x 3 matrices, flat and row-major
MatMul(a, b) ==
    [k \in 1 .. 9 |->
        LET i == (k - 1) \div 3
            j == (k - 1) % 3
        IN  RAdd(RAdd(RMul(a[3 * i + 1], b[j + 1]), RMul(a[3 * i + 2], b[j + 4])),
                 RMul(a[3 * i + 3], b[j + 7]))]

\* the determinant by the rule of Sarrus, in exact arithmetic
SarrusDet(m) ==
    RSub(RAdd(RAdd(RMul(RMul(m[1], m[5]), m[9]), RMul(RMul(m[2], m[6]), m[7])),
              RMul(RMul(m[3], m[4]), m[8])),
         RAdd(RAdd(RMul(RMul(m[3], m[5]), m[7]), RMul(RMul(m[2], m[4]), m[9])),
              RMul(RMul(m[1], m[6]), m[8])))

\* C22: for every matrix m with a determinant other than zero,
\* inverse_perspective_matrix returns adjugate(m) scaled by 1/det, and the
\* product of this result and m, on either side, is the identity in exact
\* arithmetic; the test of singularity is det == 0, exactly, with no
\* tolerance: a small determinant is inverted
C22_InverseIsAdjugateOverDet ==
    call.op = "inverse_perspective_matrix" =>
        IF SarrusDet(call.args.m) = Q(0)
        THEN call.status = "CannotComputeDeterminant"
        ELSE /\ call.status = "Ok"
             /\ Len(call.ret) = 9
             /\ \A i \in 1 .. 9 :
                  call.ret[i] = RDiv(adjugate3x3(call.args.m)[i], SarrusDet(call.args.m))
             /\ MatMul(call.ret, call.args.m) = Identity
             /\ MatMul(call.args.m, call.ret) = Identity
             /\ call.args.m = Mat(1, 0, -1, 0, 1, 1, 0, 0, 1) =>
                  call.ret = Mat(1, 0, 1, 0, 1, -1, 0, 0, 1)

C22_Witness ==
    /\ call.op = "inverse_perspective_matrix"
    /\ call.status = "Ok"
    /\ SarrusDet(call.args.m) = R(1, 1000)
    /\ call.ret[1] = Q(1000)
    /\ MatMul(call.ret, call.args.m) = Identity

\* the projective transform of the point q by the matrix m, with the
\* homogeneous division
ProjectiveMap(m, q) ==
    LET w == RAdd(RAdd(RMul(m[7], q[1]), RMul(m[8], q[2])), m[9])
    IN  <<RDiv(RAdd(RAdd(RMul(m[1], q[1]), RMul(m[2], q[2])), m[3]), w),
          RDiv(RAdd(RAdd(RMul(m[4], q[1]), RMul(m[5], q[2])), m[6]), w)>>

\* the pixels of the destination, in the order of the grid
PixelsOf(d) == 0 .. Width(d) * Height(d) - 1

\* C23: for every invertible matrix m and every pixel (u, v) of the
\* destination, warp_perspective samples the source at the coordinate that
\* the inverse of m, as a projective transform, gives for (u, v): mapped
\* forward through m, with the homogeneous division, the sampled coordinate
\* gives back (u, v)
C23_SampledCoordinateMapsBack ==
    (call.op = "warp_perspective" /\ call.status = "Ok") =>
        \A p \in PixelsOf(dst) :
            ProjectiveMap(call.args.m, SampleCoord(dst, call.args.m, p)) = MeshUV(dst, p)

\* a warp whose pixel (0, 0) is sampled at (-1, 2), which m maps to (0, 1)
C23_Witness ==
    /\ call.op = "warp_perspective"
    /\ call.status = "Ok"
    /\ call.args.m = Mat(1, 0, 1, 1, 1, 0, 0, 0, 1)
    /\ Width(dst) > 0
    /\ Height(dst) > 0
    /\ SampleCoord(dst, call.args.m, 0) = <<Q(-1), Q(2)>>
    /\ ProjectiveMap(call.args.m, <<Q(-1), Q(2)>>) = <<Q(0), Q(1)>>
    /\ MeshUV(dst, 0) = <<Q(0), Q(0)>>

\* the loop of a call has handed out every pixel and every worker is done
LoopDone ==
    /\ call.status = "running"
    /\ call.loop.pending = {}
    /\ \A w \in 1 .. call.workers : call.loop.cur[w] = Idle

\* C24: a warp_perspective that succeeds writes every position of the
\* destination exactly once: dst[v][u][c] is the interpolated sample of the
\* source at transform_point(u, v, inverse(m)) for the channel c, so the
\* destination it leaves is determined by the source, m, the interpolation
\* and the size of the destination, whatever the destination held before
C24_WarpWritesEveryPositionOnce ==
    /\ (call.op = "warp_perspective" /\ LoopDone) =>
         \A k \in 1 .. Len(dst.data) : call.loop.count[k] = 1
    /\ (call.op = "warp_perspective" /\ call.status = "Ok") =>
         LET inv_m == inverse_perspective_matrix(call.args.m).m
         IN  /\ Len(dst.data) = Height(dst) * Width(dst) * NumChannels(src)
             /\ \A v \in 0 .. Height(dst) - 1, u \in 0 .. Width(dst) - 1,
                   c \in 0 .. NumChannels(src) - 1 :
                  LET q == transform_point(Q(u), Q(v), inv_m)
                  IN  GetUnchecked(dst, v, u, c)
                        = interpolate_pixel(src, q[1], q[2], c, call.args.interpolation)

\* a warp into a destination of another size than the source, with a pixel
\* sampled outside the source, that leaves two different values
C24_Witness ==
    /\ call.op = "warp_perspective"
    /\ call.status = "Ok"
    /\ Size(src) # Size(dst)
    /\ Len(dst.data) >= 2
    /\ dst.data[1] # dst.data[2]
    /\ \E p \in PixelsOf(dst) :
         RLt(Q(Width(src) - 1), SampleCoord(dst, call.args.m, p)[1])

\* the first index of the source, in buffer order, whose conversion to the
\* type u is not representable; 0 when there is none
FirstNotRepresentable(img, u) ==
    LET bad == {i \in 1 .. Len(img.data) : NotRepresentable(img.dtype, u, img.data[i])}
    IN  IF bad = {} THEN 0 ELSE CHOOSE k \in bad : \A i \in bad : k <= i

\* C25: when cast_and_scale fails with CastError at the first index k of the
\* source, in buffer order, whose conversion is not representable, the
\* elements of the destination below k hold NumCast(src[i]) * scale and the
\* elements at k and above keep the values they had before the call; the
\* source is unchanged
C25_CastErrorLeavesPartialWrite ==
    [][(call'.op = "cast_and_scale" /\ call'.status = "CastError") =>
          LET k == FirstNotRepresentable(src, dst.dtype)
          IN  /\ k >= 1
              /\ src' = src
              /\ dst'.shape = dst.shape
              /\ dst'.dtype = dst.dtype
              /\ Len(dst'.data) = Len(dst.data)
              /\ \A i \in 1 .. Len(dst.data) :
                   dst'.data[i]
                     = IF i < k
                       THEN MulVal(dst.dtype, Q(Trunc(src.data[i])), call'.args.scale)
                       ELSE dst.data[i]]_vars

\* a call that fails at the second element: the first element of the
\* destination is the product, the second is the fill value
C25_Witness ==
    /\ call.op = "cast_and_scale"
    /\ call.status = "CastError"
    /\ FirstNotRepresentable(src, dst.dtype) = 2
    /\ call.args.scale = Q(2)
    /\ src.data[1] = R(3, 2)
    /\ dst.data[1] = Q(2)
    /\ dst.data[2] = Q(255)

\* every element of the buffer is the same value
AllEqual(data) == \A i \in 1 .. Len(data) : data[i] = data[1]

\* C26: normalize_min_max compares the sizes before it scans for the minimum
\* and the maximum: a size mismatch gives InvalidImageSize even when the
\* source is empty, and an empty source of the destination's size gives
\* ImageDataNotInitialized; a source of the destination's size that is not
\* empty always gives Ok, also when all its elements are equal (max == min):
\* the division by zero then goes into the values of the destination (NaN)
\* and is not reported as an error
C26_NormalizeMinMaxErrorOrder ==
    call.op = "normalize_min_max" =>
        IF Size(src) # Size(dst) THEN call.status = "InvalidImageSize"
        ELSE IF Len(src.data) = 0 THEN call.status = "ImageDataNotInitialized"
        ELSE /\ call.status = "Ok"
             /\ AllEqual(src.data) =>
                  /\ Len(dst.data) = Len(src.data)
                  /\ \A k \in 1 .. Len(dst.data) : IsNaN(dst.data[k])

\* a call with an empty source and a destination of another size
C26_Witness ==
    /\ call.op = "normalize_min_max"
    /\ call.status = "InvalidImageSize"
    /\ Size(src) # Size(dst)
    /\ Len(src.data) = 0
    /\ Len(dst.data) > 0

===========================================================================
